---- MODULE Spec2Model ----
(***************************************************************************)
(* Model of the ocs01 test client (src/main.rs): the interactive loop of   *)
(* main, call_contract, view_call, sign_tx and the confirmation poller     *)
(* wait_tx, together with the remote node and the wall clock they talk to. *)
(*                                                                         *)
(* Text is modelled as sequences of one-character strings, so that the     *)
(* format! of sign_tx and the to_string conversions are computed and not   *)
(* assumed.  The wall clock counts ticks of 1/TicksPerSec second, so that  *)
(* the truncation of Duration::as_secs is computed as well.                *)
(***************************************************************************)
EXTENDS Integers, Sequences, FiniteSets, TLC

(* ------------------------------ bounds -------------------------------- *)
MaxOps == 2              \* loop iterations explored
MaxNonce == 2            \* largest account nonce the node reaches
MaxTimeout == 12         \* PollSpec: wait_tx is called with 0..MaxTimeout
MaxJitter == 2           \* ticks one wait_tx loses to scheduling, slow requests and oversleeping
MaxSignTicks == 1        \* building and signing takes 0..MaxSignTicks ticks
MaxSetBack == 1          \* times the wall clock is set backwards during one wait_tx

(* ------------------------- program constants -------------------------- *)
TicksPerSec == 2         \* resolution under the whole seconds of as_secs()
SleepSecs == 5           \* Duration::from_secs(5)
WaitTimeout == 100       \* wait_tx(.., 100) in main
HttpErrorFrom == 400     \* status().as_u16() >= 400

(* ------------------------------- text --------------------------------- *)
Digit(d) ==
  CASE d = 0 -> "0" [] d = 1 -> "1" [] d = 2 -> "2" [] d = 3 -> "3"
    [] d = 4 -> "4" [] d = 5 -> "5" [] d = 6 -> "6" [] d = 7 -> "7"
    [] d = 8 -> "8" [] d = 9 -> "9"

\* u64::to_string: decimal digits, no sign, no leading zero
RECURSIVE U64ToString(_)
U64ToString(n) ==
  IF n < 10 THEN <<Digit(n)>> ELSE U64ToString(n \div 10) \o <<Digit(n % 10)>>

\* decimal digits of the fraction r/TicksPerSec, shortest form
RECURSIVE FracDigits(_, _)
FracDigits(r, left) ==
  IF r = 0 \/ left = 0 THEN <<>>
  ELSE <<Digit((r * 10) \div TicksPerSec)>>
         \o FracDigits((r * 10) % TicksPerSec, left - 1)

\* f64 Display (timestamp.to_string()): a whole value prints without ".0"
F64ToString(t) ==
  IF t % TicksPerSec = 0 THEN U64ToString(t \div TicksPerSec)
  ELSE U64ToString(t \div TicksPerSec) \o <<".">> \o FracDigits(t % TicksPerSec, 17)

\* serde_json's f64: a whole value prints with ".0"
F64ToJson(t) ==
  IF t % TicksPerSec = 0 THEN U64ToString(t \div TicksPerSec) \o <<".", "0">>
  ELSE U64ToString(t \div TicksPerSec) \o <<".">> \o FracDigits(t % TicksPerSec, 17)

(* ------------------------------- state -------------------------------- *)
VARIABLES
  pc,           \* position of the process in main / call_contract / wait_tx
  now,          \* SystemTime::now(), in ticks
  nodeNonce,    \* the account's nonce on the remote node
  nodeTx,       \* the transaction the node holds for the account, or NoTx
  ops,          \* loop iterations completed
  method,       \* main: the selected Method
  params,       \* main: parse_params' result
  menuNonce,    \* main: nonce printed at the top of the iteration
  fetchedNonce, \* call_contract: nonce
  timestamp,    \* call_contract: timestamp
  clockReads,   \* reads of the clock in this call_contract
  tx,           \* call_contract: the HashMap handed to sign_tx
  signature,    \* call_contract: signature
  request,      \* the body POSTed to /call-contract, or NoReq
  tx_hash,      \* main: tx_hash
  timeout,      \* wait_tx: timeout
  start,        \* wait_tx: start
  checks,       \* status fetches issued by this wait_tx
  lastStatus,   \* wait_tx: tx["status"], NoStatus while no response is in scope
  dots,         \* progress indicators printed by this wait_tx
  sleeps,       \* sleeps taken by this wait_tx
  jitter,       \* ticks this wait_tx lost to slow requests and oversleeping
  setBacks,     \* times the clock was set backwards during this wait_tx
  waitResult,   \* what wait_tx returned
  display,      \* lines shown to the operator in this iteration
  net,          \* requests sent in this iteration, by endpoint
  confirmedMax, \* highest nonce of a transaction the poller reported confirmed
  response,     \* view_call: response
  signIn,       \* SignSpec: the two transactions handed to sign_tx
  signOut       \* SignSpec: the two signatures

vars ==
  <<pc, now, nodeNonce, nodeTx, ops, method, params, menuNonce, fetchedNonce,
    timestamp, clockReads, tx, signature, request, tx_hash, timeout, start,
    checks, lastStatus, dots, sleeps, jitter, setBacks, waitResult,
    display, net, confirmedMax, response, signIn, signOut>>

mainVars == <<ops, method, params, menuNonce>>
callVars == <<fetchedNonce, timestamp, clockReads, tx, signature, request>>
waitVars ==
  <<timeout, start, checks, lastStatus, dots, sleeps, jitter, waitResult>>
pureVars == <<response, signIn, signOut>>

NoTx == [nonce |-> 0, status |-> "none"]
NoReq == [sent |-> FALSE]
NoMethod == [name |-> "", type |-> "", nparams |-> 0]
Missing == "<missing>"     \* tx["status"] when the field is absent (Value::Null)
NoStatus == "<none>"       \* no status response in scope
EmptyNet == [balance |-> 0, view |-> 0, call |-> 0, status |-> 0, statusOf |-> <<>>]

(* ----------------------------- transport ------------------------------ *)
\* What the network and the node give back to one request: the request may
\* fail to be sent or answered, and an answer has an HTTP status code and a
\* body that parses as the expected JSON shape or does not.
Replies(bodies) ==
  {[delivered |-> FALSE, code |-> 0, parses |-> FALSE, body |-> b] : b \in bodies}
  \cup {[delivered |-> TRUE, code |-> c, parses |-> TRUE, body |-> b] :
          c \in {200, 400, 500}, b \in bodies}
  \cup {[delivered |-> TRUE, code |-> 200, parses |-> FALSE, body |-> b] : b \in bodies}

Ok(v) == [ok |-> TRUE, val |-> v, err |-> ""]
Err(e) == [ok |-> FALSE, val |-> 0, err |-> e]

\* api_call: send()?, then the status test, then json()?
api_call(reply) ==
  IF ~reply.delivered THEN Err("transport")
  ELSE IF reply.code >= HttpErrorFrom THEN Err("api error")
  ELSE IF ~reply.parses THEN Err("decode")
  ELSE Ok(reply.body)


(* ------------------------------ sign_tx ------------------------------- *)
Q == "\""

\* the canonical text: format!(r#"{{"from":"{}","to_":"{}","amount":"{}",
\* "nonce":{},"ou":"{}","timestamp":{}}}"#, ..), the values put in as they are
Blob(t) ==
  <<"{", Q, "f", "r", "o", "m", Q, ":", Q>> \o t.from
    \o <<Q, ",", Q, "t", "o", "_", Q, ":", Q>> \o t.to_
    \o <<Q, ",", Q, "a", "m", "o", "u", "n", "t", Q, ":", Q>> \o t.amount
    \o <<Q, ",", Q, "n", "o", "n", "c", "e", Q, ":">> \o t.nonce
    \o <<",", Q, "o", "u", Q, ":", Q>> \o t.ou
    \o <<Q, ",", Q, "t", "i", "m", "e", "s", "t", "a", "m", "p", Q, ":">> \o t.timestamp
    \o <<"}">>

\* Ed25519 over the bytes: deterministic, and distinct (key, message) pairs
\* have distinct signatures; base64 of it is one-to-one
Ed25519Sign(sk, bytes) == [key |-> sk, msg |-> bytes]

sign_tx(sk, t) == Ed25519Sign(sk, Blob(t))

(* ----------------------------- view_call ------------------------------ *)
\* serde_json::Value
JStr(chars) == [t |-> "str", s |-> chars, n |-> 0, b |-> FALSE, items |-> <<>>]
JNum(k) == [t |-> "num", s |-> <<>>, n |-> k, b |-> FALSE, items |-> <<>>]
JBool(x) == [t |-> "bool", s |-> <<>>, n |-> 0, b |-> x, items |-> <<>>]
JNull == [t |-> "null", s |-> <<>>, n |-> 0, b |-> FALSE, items |-> <<>>]
JArr(vs) == [t |-> "arr", s |-> <<>>, n |-> 0, b |-> FALSE, items |-> vs]

\* Number::to_string for an integer
I64ToString(k) == IF k < 0 THEN <<"-">> \o U64ToString(-k) ELSE U64ToString(k)

BoolToString(x) ==
  IF x THEN <<"t", "r", "u", "e">> ELSE <<"f", "a", "l", "s", "e">>

\* Value::to_string of a scalar: compact JSON, a string in quotes
ScalarToJson(v) ==
  CASE v.t = "str" -> <<Q>> \o v.s \o <<Q>>
    [] v.t = "num" -> I64ToString(v.n)
    [] v.t = "bool" -> BoolToString(v.b)
    [] OTHER -> <<"n", "u", "l", "l">>

RECURSIVE JoinJson(_)
JoinJson(vs) ==
  IF vs = <<>> THEN <<>>
  ELSE IF Len(vs) = 1 THEN ScalarToJson(vs[1])
  ELSE ScalarToJson(vs[1]) \o <<",">> \o JoinJson(Tail(vs))

\* Value::to_string of an array of scalars
ArrToJson(v) == <<"[">> \o JoinJson(v.items) \o <<"]">>

Some(chars) == [some |-> TRUE, text |-> chars]
None == [some |-> FALSE, text |-> <<>>]

\* no JSON value was obtained
NoResponse == [status |-> "<no response>", result |-> JNull]

\* a normalization that reads the result whatever the status says
NormalizeAnyStatus(body) ==
  CASE body.result.t = "str" -> Some(body.result.s)
    [] body.result.t = "num" -> Some(I64ToString(body.result.n))
    [] body.result.t = "bool" -> Some(BoolToString(body.result.b))
    [] body.result.t = "null" -> Some(<<"n", "u", "l", "l">>)
    [] OTHER -> Some(ArrToJson(body.result))

\* the Ok(..) value of view_call: the match on response["result"] under
\* response["status"] == "success", else None
Normalize(body) ==
  IF body.status = "success"
  THEN CASE body.result.t = "str" -> Some(body.result.s)
         [] body.result.t = "num" -> Some(I64ToString(body.result.n))
         [] body.result.t = "bool" -> Some(BoolToString(body.result.b))
         [] body.result.t = "null" -> Some(<<"n", "u", "l", "l">>)
         [] OTHER -> Some(ArrToJson(body.result))
  ELSE None

\* view_call: the request, then the normalization
view_call(reply) ==
  LET r == api_call(reply) IN
    IF ~r.ok THEN r ELSE Ok(Normalize(r.val))

\* result.unwrap_or_else(|| "none".to_string())
UnwrapOrNone(opt) == IF opt.some THEN opt.text ELSE <<"n", "o", "n", "e">>

(* ------------------------------ wait_tx ------------------------------- *)
WaitPcs == {"wait_enter", "wait_check", "wait_fetch", "wait_sleep"}
Statuses == {"pending", "confirmed", "unknown", Missing}

Confirmed == [kind |-> "Confirmed", err |-> ""]
TimedOut == [kind |-> "TimedOut", err |-> ""]
Failed(e) == [kind |-> "Failed", err |-> e]
Running == [kind |-> "Waiting", err |-> ""]

\* SystemTime::now().duration_since(start)?.as_secs(): an error when the
\* clock is behind start, else the whole seconds elapsed
ElapsedSecs(t, s) ==
  IF t < s THEN Err("clock") ELSE Ok((t - s) \div TicksPerSec)

\* a timeout test that never fires
TimeoutNever(elapsed, limit) == FALSE

\* a timeout test that fires as soon as the timeout is reached
TimeoutReached(elapsed, limit) == elapsed >= limit

\* if elapsed > timeout
TimeoutExceeded(elapsed, limit) == elapsed > limit

\* a comparison that takes everything but "pending" for confirmed
IsConfirmedNotPending(status) == status # "pending"

\* a comparison that also takes a status merely containing good news
IsConfirmedLoose(status) == status \in {"confirmed", "unknown"}

\* tx["status"] == "confirmed"
IsConfirmed(status) == status = "confirmed"

\* a sleep of one second instead of five
SleepTicksOneSecond == TicksPerSec

\* std::thread::sleep(Duration::from_secs(5)), in ticks
SleepTicks == SleepSecs * TicksPerSec

\* entry of wait_tx: let start = SystemTime::now();
WaitEnter ==
  /\ pc = "wait_enter"
  /\ start' = now
  \* the clock is read again at the head of the loop: the thread may have
  \* been held up in between
  /\ \E d \in 0..MaxJitter : now' = now + d /\ jitter' = d
  /\ checks' = 0 /\ dots' = 0 /\ sleeps' = 0 /\ setBacks' = 0
  /\ lastStatus' = NoStatus
  /\ waitResult' = Running
  /\ pc' = "wait_check"
  /\ UNCHANGED <<nodeNonce, nodeTx, mainVars, callVars, tx_hash, timeout,
                 display, net, confirmedMax, pureVars>>

\* the head of the loop: elapsed, and the timeout test
WaitCheck ==
  /\ pc = "wait_check"
  /\ LET e == ElapsedSecs(now, start) IN
       IF ~e.ok THEN /\ waitResult' = Failed(e.err)
                     /\ pc' = "wait_ret"
       ELSE IF TimeoutExceeded(e.val, timeout)
            THEN /\ waitResult' = TimedOut
                 /\ pc' = "wait_ret"
            ELSE /\ waitResult' = waitResult
                 /\ pc' = "wait_fetch"
  /\ UNCHANGED <<now, nodeNonce, nodeTx, mainVars, callVars, tx_hash, timeout,
                 start, checks, lastStatus, dots, sleeps, jitter, setBacks, display,
                 net, confirmedMax, pureVars>>

\* a poller that takes a failed status fetch for "not yet" and goes on
OnFetchErrorRetry(e) == [pc |-> "wait_sleep", result |-> Running]

\* api_call(..)? : the error leaves wait_tx
OnFetchError(e) == [pc |-> "wait_ret", result |-> Failed(e)]

\* the bodies the node may answer GET /tx/{hash} with: it reports
\* "confirmed" only for a transaction it has confirmed
StatusBodies ==
  {s \in Statuses : s = "confirmed" => nodeTx.status = "confirmed"}

\* api_call(GET /tx/{hash})?, the status test, and print!(".") (the console
\* takes every write: flush()? passes)
WaitFetch ==
  /\ pc = "wait_fetch"
  /\ \E reply \in Replies(StatusBodies), d \in 0..(MaxJitter - jitter) :
       LET r == api_call(reply) IN
         /\ now' = now + d
         /\ jitter' = jitter + d
         /\ checks' = checks + 1
         /\ net' = [net EXCEPT !.status = @ + 1, !.statusOf = tx_hash]
         /\ IF ~r.ok
            THEN /\ waitResult' = OnFetchError(r.err).result
                 /\ pc' = OnFetchError(r.err).pc
                 /\ UNCHANGED <<lastStatus, dots>>
            ELSE /\ lastStatus' = r.val
                 /\ IF IsConfirmed(r.val)
                    THEN /\ waitResult' = Confirmed
                         /\ pc' = "wait_ret"
                         /\ UNCHANGED dots
                    ELSE /\ dots' = dots + 1
                         /\ pc' = "wait_sleep"
                         /\ UNCHANGED waitResult
  /\ UNCHANGED <<nodeNonce, nodeTx, mainVars, callVars, tx_hash, timeout, start,
                 sleeps, setBacks, display, confirmedMax, pureVars>>

\* std::thread::sleep: the five seconds, or a little more
WaitSleep ==
  /\ pc = "wait_sleep"
  /\ \E o \in 0..(MaxJitter - jitter) :
       /\ now' = now + SleepTicks + o
       /\ jitter' = jitter + o
  /\ sleeps' = sleeps + 1
  /\ lastStatus' = NoStatus          \* tx is dropped at the end of the iteration
  /\ pc' = "wait_check"
  /\ UNCHANGED <<nodeNonce, nodeTx, mainVars, callVars, tx_hash, timeout, start,
                 checks, dots, setBacks, waitResult, display, net, confirmedMax, pureVars>>

\* every status fetch so far took no time, every sleep so far was exactly
\* SleepSecs long, and the clock was not set
Exact == setBacks = 0 /\ jitter = 0

(* ---------------------------- environment ----------------------------- *)
\* The node confirms the transaction it holds: the account's nonce becomes
\* the transaction's nonce.
NodeConfirm ==
  /\ nodeTx.status = "pending"
  /\ nodeTx.nonce > nodeNonce
  /\ nodeTx' = [nodeTx EXCEPT !.status = "confirmed"]
  /\ nodeNonce' = nodeTx.nonce
  /\ UNCHANGED <<pc, now, mainVars, callVars, tx_hash, waitVars, setBacks,
                 display, net, confirmedMax, pureVars>>

\* SystemTime is not monotonic: the wall clock is set back while a status
\* request of the poller is in flight.
ClockSetBack ==
  /\ pc = "wait_fetch"
  /\ setBacks < MaxSetBack
  /\ now > 0
  /\ now' = 0
  /\ setBacks' = setBacks + 1
  /\ UNCHANGED <<pc, nodeNonce, nodeTx, mainVars, callVars, tx_hash, waitVars,
                 display, net, confirmedMax, pureVars>>

\* the wall clock when a prompt returns: the operator takes any time to answer
PromptClocks == {24, 29}

TxHash(n) == <<"h">> \o U64ToString(n)

(* -------------------------- files read at startup --------------------- *)
\* wallet.json
Wallet == [priv |-> "sk", addr |-> <<"a", "1">>, rpc |-> "rpc"]

\* exec_interface.json: a view method, a call method, and a method of
\* another type
Interface ==
  [contract |-> <<"c", "1">>,
   methods |-> <<[name |-> "get_count", type |-> "view", nparams |-> 0],
                 [name |-> "increment", type |-> "call", nparams |-> 1],
                 [name |-> "multi", type |-> "batch", nparams |-> 0],
                 [name |-> "reset", type |-> "call", nparams |-> 0]>>]

(* ------------------------------- main --------------------------------- *)
\* what the operator may type at "choice: "
Choices == {<<"0">>, <<"1">>, <<"2">>, <<"3">>, <<"4">>, <<"5">>, <<"x">>}

\* what the operator may type for one parameter
ParamInputs == {<<"1">>, <<"7">>}

\* what the operator may type at "wait for confirmation? y/n: "
WaitAnswers == {"y", "Y", "n", ""}

DigitValue(c) ==
  CASE c = "0" -> 0 [] c = "1" -> 1 [] c = "2" -> 2 [] c = "3" -> 3
    [] c = "4" -> 4 [] c = "5" -> 5 [] c = "6" -> 6 [] c = "7" -> 7
    [] c = "8" -> 8 [] c = "9" -> 9 [] OTHER -> -1

\* choice.parse::<usize>()
RECURSIVE ParseUsize(_)
ParseUsize(chars) ==
  IF chars = <<>> THEN Err("parse")
  ELSE LET d == DigitValue(chars[Len(chars)]) IN
    IF d < 0 THEN Err("parse")
    ELSE IF Len(chars) = 1 THEN Ok(d)
    ELSE LET head == ParseUsize(SubSeq(chars, 1, Len(chars) - 1)) IN
      IF head.ok THEN Ok(head.val * 10 + d) ELSE head

\* str::to_lowercase on the answers
ToLowercase(a) == IF a = "Y" THEN "y" ELSE a

\* the bodies the node may answer GET /balance/{addr} with: balance_raw
\* parses as f64 or does not
BalanceBodies == {[balance_ok |-> b, nonce |-> nodeNonce] : b \in BOOLEAN}

\* a get_balance that does not find the nonce in the answer and yields 0
get_balanceNoNonce(reply) ==
  LET r == api_call(reply) IN
    IF ~r.ok THEN r
    ELSE IF ~r.val.balance_ok THEN Err("parse")
    ELSE Ok(0)

\* get_balance: api_call(..)?, then balance_raw.parse::<f64>()?
get_balance(reply) ==
  LET r == api_call(reply) IN
    IF ~r.ok THEN r
    ELSE IF ~r.val.balance_ok THEN Err("parse")
    ELSE Ok(r.val.nonce)

Show(line) == display' = Append(display, line)

\* the head of the loop: banner, balance and nonce, the menu
LoopTop ==
  /\ pc = "top"
  /\ \E reply \in Replies(BalanceBodies) :
       LET r == get_balance(reply) IN
         /\ net' = [net EXCEPT !.balance = @ + 1]
         /\ IF r.ok
            THEN /\ menuNonce' = r.val
                 /\ Show([kind |-> "balance", text |-> <<>>])
                 /\ pc' = "choice"
            ELSE \* get_balance(..)? : main returns the error
                 /\ menuNonce' = menuNonce
                 /\ display' = display
                 /\ pc' = "crashed"
  /\ UNCHANGED <<now, nodeNonce, nodeTx, ops, method, params, callVars, tx_hash,
                 waitVars, setBacks, confirmedMax, pureVars>>

\* read_input("choice: "), the exit test, the index test, parse_params
ReadChoice ==
  /\ pc = "choice"
  /\ \E c \in Choices, t \in PromptClocks :
       /\ now' = t
       /\ IF c = <<"0">>
          THEN /\ pc' = "exited"
               /\ Show([kind |-> "bye", text |-> <<>>])
               /\ UNCHANGED <<method, params>>
          ELSE LET idx == ParseUsize(c) IN
            IF idx.ok /\ idx.val > 0 /\ idx.val <= Len(Interface.methods)
            THEN /\ method' = Interface.methods[idx.val]
                 /\ \E ps \in [1..Interface.methods[idx.val].nparams -> ParamInputs] :
                      params' = ps
                 /\ Show([kind |-> "method", text |-> <<Interface.methods[idx.val].name>>])
                 /\ pc' = "dispatch"
            ELSE /\ pc' = "pause"
                 /\ UNCHANGED <<method, params, display>>
  /\ UNCHANGED <<nodeNonce, nodeTx, ops, menuNonce, callVars, tx_hash, waitVars,
                 setBacks, net, confirmedMax, pureVars>>

\* a match whose last arm falls back to the view path
RouteDefaultView(type) ==
  CASE type = "call" -> "call" [] OTHER -> "view"

\* match method.method_type.as_str()
Route(type) ==
  CASE type = "view" -> "view" [] type = "call" -> "call" [] OTHER -> "unknown"

ViewBodies ==
  {[status |-> st, result |-> v] :
     st \in {"success", "error", "Success", Missing},
     v \in {JStr(<<"h", "e", "l", "l", "o">>), JStr(<<>>), JNum(42), JNum(0), JNum(-7),
            JBool(TRUE), JBool(FALSE), JNull,
            JArr(<<>>), JArr(<<JNum(1), JStr(<<"a">>)>>), JArr(<<JBool(TRUE), JNull>>)}}

\* the "view" arm: view_call and the printed result or error
DispatchView ==
  /\ pc = "dispatch"
  /\ Route(method.type) = "view"
  /\ \E reply \in Replies(ViewBodies) :
       LET r == view_call(reply) IN
         /\ response' = IF api_call(reply).ok THEN reply.body ELSE NoResponse
         /\ net' = [net EXCEPT !.view = @ + 1]
         /\ IF r.ok THEN Show([kind |-> "result", text |-> UnwrapOrNone(r.val)])
                    ELSE Show([kind |-> "error", text |-> <<r.err>>])
  /\ pc' = "pause"
  /\ UNCHANGED <<now, nodeNonce, nodeTx, mainVars, callVars, tx_hash, waitVars,
                 setBacks, confirmedMax, signIn, signOut>>

\* the "call" arm: entry of call_contract
DispatchCall ==
  /\ pc = "dispatch"
  /\ Route(method.type) = "call"
  /\ fetchedNonce' = 0 /\ timestamp' = 0 /\ clockReads' = 0
  /\ tx' = <<>> /\ signature' = <<>> /\ request' = NoReq
  /\ pc' = "call_balance"
  /\ UNCHANGED <<now, nodeNonce, nodeTx, mainVars, tx_hash, waitVars, setBacks,
                 display, net, confirmedMax, pureVars>>

\* the last arm: println!("unknown method type")
DispatchUnknown ==
  /\ pc = "dispatch"
  /\ Route(method.type) = "unknown"
  /\ Show([kind |-> "unknown method type", text |-> <<>>])
  /\ pc' = "pause"
  /\ UNCHANGED <<now, nodeNonce, nodeTx, mainVars, callVars, tx_hash, waitVars,
                 setBacks, net, confirmedMax, pureVars>>

(* --------------------------- call_contract ---------------------------- *)
\* a fetch whose failure is replaced by the nonce 0
NonceResultOrZero(r) == IF r.ok THEN r ELSE Ok(0)

\* get_balance(..)? : Ok gives the nonce, Err returns from call_contract
NonceResult(r) == r

\* a call that takes the nonce main printed at the head of the iteration
CallNonceFromMenu(fetched, shown) == shown

\* let (_, nonce) = .. : the nonce of call_contract is its own local, the
\* one main printed is not among its arguments
CallNonce(fetched, shown) == fetched

\* let (_, nonce) = get_balance(..)?;
CallGetBalance ==
  /\ pc = "call_balance"
  /\ \E reply \in Replies(BalanceBodies) :
       LET r == NonceResult(get_balance(reply)) IN
         /\ net' = [net EXCEPT !.balance = @ + 1]
         /\ IF r.ok
            THEN /\ fetchedNonce' = CallNonce(r.val, menuNonce)
                 /\ pc' = "call_sign"
                 /\ UNCHANGED display
            ELSE /\ fetchedNonce' = fetchedNonce
                 /\ Show([kind |-> "error", text |-> <<r.err>>])
                 /\ pc' = "pause"
  /\ UNCHANGED <<now, nodeNonce, nodeTx, mainVars, timestamp, clockReads, tx,
                 signature, request, tx_hash, waitVars, setBacks, confirmedMax, pureVars>>

\* a nonce field that repeats the fetched nonce
TxNonceStale(n) == n

\* nonce + 1
TxNonce(n) == n + 1

\* a HashMap whose contract field also names the method
TxFieldsWithMethod(from, contract, n, ts) ==
  [from |-> from, to_ |-> Append(contract, method.name), amount |-> <<"0">>,
   nonce |-> U64ToString(n + 1), ou |-> <<"1">>, timestamp |-> F64ToString(ts)]

\* the six fields of the HashMap handed to sign_tx
TxFields(from, contract, n, ts) ==
  [from |-> from, to_ |-> contract, amount |-> <<"0">>,
   nonce |-> U64ToString(TxNonce(n)), ou |-> <<"1">>, timestamp |-> F64ToString(ts)]

\* the timestamp, the HashMap, sign_tx; signing takes some time (the clock
\* is never before UNIX_EPOCH here, so duration_since(UNIX_EPOCH)? passes)
CallSign ==
  /\ pc = "call_sign"
  /\ timestamp' = now
  /\ clockReads' = clockReads + 1
  /\ tx' = TxFields(Wallet.addr, Interface.contract, fetchedNonce, now)
  /\ signature' = sign_tx(Wallet.priv, TxFields(Wallet.addr, Interface.contract, fetchedNonce, now))
  /\ \E d \in 0..MaxSignTicks : now' = now + d
  /\ pc' = "call_submit"
  /\ UNCHANGED <<nodeNonce, nodeTx, mainVars, fetchedNonce, request, tx_hash,
                 waitVars, setBacks, display, net, confirmedMax, pureVars>>

\* a body built with the clock read again
RequestTimestampResampled(ts, clock) == [value |-> clock, reads |-> 1]

\* "timestamp": timestamp -- the local, and no read of the clock
RequestTimestamp(ts, clock) == [value |-> ts, reads |-> 0]

\* the json! body POSTed to /call-contract
RequestBody(clock) ==
  [sent |-> TRUE, contract |-> Interface.contract, method |-> method.name,
   params |-> params, caller |-> Wallet.addr, nonce |-> TxNonce(fetchedNonce),
   timestamp |-> RequestTimestamp(timestamp, clock).value,
   timestampText |-> F64ToJson(RequestTimestamp(timestamp, clock).value),
   signature |-> signature, public_key |-> <<"pk", Wallet.priv>>]

\* the bodies of a 2xx answer to POST /call-contract: tx_hash may be absent
SubmitBodies(n) == {[has_hash |-> TRUE, tx_hash |-> TxHash(n)],
                    [has_hash |-> FALSE, tx_hash |-> <<>>]}

\* response["tx_hash"].as_str().unwrap_or("")
HashOf(body) == IF body.has_hash THEN body.tx_hash ELSE <<>>

\* the node takes a transaction only with a nonce above the account's
NodeAccepts(reply, n) == reply.delivered /\ reply.code < HttpErrorFrom /\ n > nodeNonce

\* an Ok arm that keeps the hash to itself
SubmitOkLinesNone(hash) == <<>>

\* println!("\ntx: {}", tx_hash)
SubmitOkLines(hash) == <<[kind |-> "tx", text |-> hash]>>

\* an Err arm that sends the request again
SubmitErrResend == "call_submit"

\* an Err arm that goes on to poll
SubmitErrPoll == "wait_enter"

\* Err(e) => println!("error: {}", e), then "press enter to continue..."
SubmitErrNext == "pause"

\* the POST of call_contract and its Ok(tx_hash) / Err(e) arms in main
CallSubmit ==
  /\ pc = "call_submit"
  /\ request' = RequestBody(now)
  /\ clockReads' = clockReads + RequestTimestamp(timestamp, now).reads
  /\ net' = [net EXCEPT !.call = @ + 1]
  /\ \E reply \in Replies(SubmitBodies(TxNonce(fetchedNonce))) :
       LET r == api_call(reply) IN
         /\ (reply.delivered /\ reply.code < HttpErrorFrom) => TxNonce(fetchedNonce) > nodeNonce
         /\ nodeTx' = IF NodeAccepts(reply, TxNonce(fetchedNonce))
                      THEN [nonce |-> TxNonce(fetchedNonce), status |-> "pending"]
                      ELSE nodeTx
         /\ IF r.ok
            THEN /\ tx_hash' = HashOf(r.val)
                 /\ display' = display \o SubmitOkLines(HashOf(r.val))
                 /\ pc' = "ask_wait"
            ELSE /\ tx_hash' = tx_hash
                 /\ Show([kind |-> "error", text |-> <<r.err>>])
                 /\ pc' = SubmitErrNext
  /\ UNCHANGED <<now, nodeNonce, mainVars, fetchedNonce, timestamp, tx, signature,
                 waitVars, setBacks, confirmedMax, pureVars>>

\* read_input("wait for confirmation? y/n: "), and wait_tx(.., 100) on "y"
AskWait ==
  /\ pc = "ask_wait"
  /\ \E a \in WaitAnswers, t \in PromptClocks :
       /\ now' = t
       /\ IF ToLowercase(a) = "y"
          THEN /\ Show([kind |-> "waiting", text |-> <<>>])
               /\ timeout' = WaitTimeout
               /\ pc' = "wait_enter"
          ELSE /\ pc' = "pause"
               /\ UNCHANGED <<display, timeout>>
  \* call_contract has returned: its locals are gone, and the rest of the
  \* iteration reads neither method, params nor the nonce printed at its head
  /\ fetchedNonce' = 0 /\ timestamp' = 0 /\ clockReads' = 0
  /\ tx' = <<>> /\ signature' = <<>> /\ request' = NoReq
  /\ method' = NoMethod /\ params' = <<>> /\ menuNonce' = 0
  /\ UNCHANGED <<nodeNonce, nodeTx, ops, tx_hash, start, checks,
                 lastStatus, dots, sleeps, jitter, waitResult, setBacks, net,
                 confirmedMax, pureVars>>

\* the three arms on wait_tx's result
ShowWaitResult ==
  /\ pc = "wait_ret"
  /\ Show(CASE waitResult.kind = "Confirmed" -> [kind |-> "confirmed", text |-> <<>>]
            [] waitResult.kind = "TimedOut" -> [kind |-> "timeout", text |-> <<>>]
            [] OTHER -> [kind |-> "error", text |-> <<waitResult.err>>])
  /\ confirmedMax' = IF waitResult.kind = "Confirmed" /\ nodeTx.nonce > confirmedMax
                     THEN nodeTx.nonce ELSE confirmedMax
  \* wait_tx has returned: its locals are gone
  /\ timeout' = 0 /\ start' = 0 /\ checks' = 0 /\ lastStatus' = NoStatus
  /\ dots' = 0 /\ sleeps' = 0 /\ jitter' = 0 /\ setBacks' = 0
  /\ waitResult' = Running
  /\ pc' = "pause"
  /\ UNCHANGED <<now, nodeNonce, nodeTx, mainVars, callVars, tx_hash, net,
                 pureVars>>

\* read_input("press enter to continue..."), and the next iteration
PressEnter ==
  /\ pc = "pause"
  /\ ops + 1 < MaxOps
  /\ ops' = ops + 1
  /\ \E t \in PromptClocks : now' = t
  \* the iteration ends: the locals of the loop body are gone
  /\ method' = NoMethod /\ params' = <<>> /\ menuNonce' = 0 /\ tx_hash' = <<>>
  /\ fetchedNonce' = 0 /\ timestamp' = 0 /\ clockReads' = 0
  /\ tx' = <<>> /\ signature' = <<>> /\ request' = NoReq
  /\ response' = NoResponse
  /\ display' = <<>> /\ net' = EmptyNet
  /\ pc' = "top"
  /\ UNCHANGED <<nodeNonce, nodeTx, waitVars, setBacks, confirmedMax, signIn, signOut>>

\* Somebody else uses the account while the client is at a prompt or inside
\* call_contract: its nonce on the node goes up.
ExternalActivity ==
  /\ pc \in {"choice", "call_balance", "call_sign", "call_submit", "ask_wait"}
  /\ nodeNonce < MaxNonce
  /\ nodeNonce' = nodeNonce + 1
  /\ UNCHANGED <<pc, now, nodeTx, mainVars, callVars, tx_hash, waitVars, setBacks,
                 display, net, confirmedMax, pureVars>>

(* ------------------------- the client: Spec ---------------------------- *)
Init ==
  /\ pc = "top"
  /\ now \in PromptClocks
  /\ nodeNonce \in 0..1
  /\ nodeTx = NoTx
  /\ tx_hash = <<>>
  /\ timeout = 0
  /\ ops = 0 /\ method = NoMethod /\ params = <<>> /\ menuNonce = 0
  /\ fetchedNonce = 0 /\ timestamp = 0 /\ clockReads = 0 /\ tx = <<>>
  /\ signature = <<>> /\ request = NoReq
  /\ start = 0 /\ checks = 0 /\ lastStatus = NoStatus
  /\ dots = 0 /\ sleeps = 0 /\ jitter = 0 /\ setBacks = 0
  /\ waitResult = Running
  /\ display = <<>> /\ net = EmptyNet /\ confirmedMax = 0
  /\ response = NoResponse /\ signIn = <<>> /\ signOut = <<>>

Next ==
  \/ LoopTop
  \/ ReadChoice
  \/ DispatchView
  \/ DispatchCall
  \/ DispatchUnknown
  \/ CallGetBalance
  \/ CallSign
  \/ CallSubmit
  \/ AskWait
  \/ WaitEnter
  \/ WaitCheck
  \/ WaitFetch
  \/ WaitSleep
  \/ ShowWaitResult
  \/ PressEnter
  \/ NodeConfirm
  \/ ExternalActivity
  \/ ClockSetBack

Spec == Init /\ [][Next]_vars

(* --------------------- the poller on its own: PollSpec ----------------- *)
PollInit ==
  /\ pc = "wait_enter"
  /\ now \in PromptClocks
  /\ timeout \in 0..MaxTimeout
  /\ nodeNonce = 0
  /\ nodeTx = [nonce |-> 1, status |-> "pending"]
  /\ tx_hash = TxHash(1)
  /\ ops = 0 /\ method = NoMethod /\ params = <<>> /\ menuNonce = 0
  /\ fetchedNonce = 0 /\ timestamp = 0 /\ clockReads = 0 /\ tx = <<>>
  /\ signature = <<>> /\ request = NoReq
  /\ start = 0 /\ checks = 0 /\ lastStatus = NoStatus
  /\ dots = 0 /\ sleeps = 0 /\ jitter = 0 /\ setBacks = 0
  /\ waitResult = Running
  /\ display = <<>> /\ net = EmptyNet /\ confirmedMax = 0
  /\ response = NoResponse /\ signIn = <<>> /\ signOut = <<>>

PollNext ==
  \/ WaitEnter
  \/ WaitCheck
  \/ WaitFetch
  \/ WaitSleep
  \/ NodeConfirm
  \/ ClockSetBack

PollSpec == PollInit /\ [][PollNext]_vars

\* wait_tx with a clock that only advances.  wait_tx is one sequential loop:
\* once the request and the sleep return, its next statement runs, so the
\* steps of the loop are weakly fair; the node's own step is not.
PollStep == WaitEnter \/ WaitCheck \/ WaitFetch \/ WaitSleep

PollLiveNext ==
  \/ WaitEnter
  \/ WaitCheck
  \/ WaitFetch
  \/ WaitSleep
  \/ NodeConfirm

PollLiveSpec == PollInit /\ [][PollLiveNext]_vars /\ WF_vars(PollStep)

(* ------------------- sign_tx on its own: SignSpec ----------------------- *)
\* field values: plain ones, and ones that hold the quote character
SignFroms == {<<"a">>, <<"a", Q, ",", Q, "t", "o", "_", Q, ":", Q, "b">>}
SignTos == {<<"c">>, <<"b", Q, ",", Q, "t", "o", "_", Q, ":", Q, "c">>}
SignInputs ==
  {[from |-> f, to_ |-> t, amount |-> <<"0">>, nonce |-> n, ou |-> <<"1">>,
    timestamp |-> ts] :
     f \in SignFroms, t \in SignTos, n \in {<<"1">>, <<"2">>},
     ts \in {<<"1", "2">>, <<"1", "2", ".", "5">>}}

SignInit ==
  /\ pc = "sign"
  /\ signIn \in SignInputs \X SignInputs
  /\ signOut = <<>>
  /\ now = 0 /\ nodeNonce = 0 /\ nodeTx = NoTx /\ tx_hash = <<>> /\ timeout = 0
  /\ ops = 0 /\ method = NoMethod /\ params = <<>> /\ menuNonce = 0
  /\ fetchedNonce = 0 /\ timestamp = 0 /\ clockReads = 0 /\ tx = <<>>
  /\ signature = <<>> /\ request = NoReq
  /\ start = 0 /\ checks = 0 /\ lastStatus = NoStatus
  /\ dots = 0 /\ sleeps = 0 /\ jitter = 0 /\ setBacks = 0
  /\ waitResult = Running
  /\ display = <<>> /\ net = EmptyNet /\ confirmedMax = 0
  /\ response = NoResponse

\* sign_tx(&sk, &tx) on each of the two maps, with the wallet's key
SignBoth ==
  /\ pc = "sign"
  /\ signOut' = <<sign_tx(Wallet.priv, signIn[1]), sign_tx(Wallet.priv, signIn[2])>>
  /\ pc' = "signed"
  /\ UNCHANGED <<now, nodeNonce, nodeTx, mainVars, callVars, tx_hash, waitVars,
                 setBacks, display, net, confirmedMax, response, signIn>>

SignNext == SignBoth

SignSpec == SignInit /\ [][SignNext]_vars

(* ------------------------------- claims -------------------------------- *)

\* C1: with timeout 12, fetches that take no time, exact 5-second sleeps and
\* every fetched status other than "confirmed", wait_tx makes at most 3
\* status checks and returns TimedOut between 12 and 17 seconds after start.
C1_PollTimeout ==
  (pc \in WaitPcs \cup {"wait_ret"} /\ timeout = 12 /\ Exact /\ dots = checks) =>
    /\ checks <= 3
    /\ pc = "wait_ret" =>
         /\ waitResult = TimedOut
         /\ now - start >= 12 * TicksPerSec
         /\ now - start <= 17 * TicksPerSec

C1_Witness ==
  /\ pc = "wait_ret" /\ timeout = 12 /\ Exact /\ dots = checks
  /\ waitResult = TimedOut /\ checks = 3

\* C2: wait_tx returns Confirmed exactly when the status just fetched is
\* "confirmed", after as many checks as statuses fetched (the k-1 others and
\* this one), and fetches nothing after it; pending, pending, confirmed
\* returns Confirmed after exactly 3 checks.
C2_PollSuccess ==
  /\ (pc = "wait_ret" /\ waitResult = Confirmed) =>
       (lastStatus = "confirmed" /\ checks = dots + 1)
  /\ lastStatus = "confirmed" =>
       (pc \notin WaitPcs /\ waitResult = Confirmed /\ checks = dots + 1)
  /\ (lastStatus = "confirmed" /\ dots = 2) =>
       (waitResult = Confirmed /\ checks = 3)

C2_Witness ==
  /\ pc = "wait_ret" /\ waitResult = Confirmed
  /\ lastStatus = "confirmed" /\ dots = 2 /\ checks = 3

\* ---- reading text back, for the claims ----
RECURSIVE Pow10(_)
Pow10(k) == IF k = 0 THEN 1 ELSE 10 * Pow10(k - 1)

DotAt(chars) ==
  IF \E i \in DOMAIN chars : chars[i] = "."
  THEN CHOOSE i \in DOMAIN chars : chars[i] = "." ELSE 0

\* the clock value, in ticks, that a decimal text stands for
TicksOfText(chars) ==
  LET dot == DotAt(chars) IN
    IF dot = 0 THEN ParseUsize(chars).val * TicksPerSec
    ELSE LET whole == ParseUsize(SubSeq(chars, 1, dot - 1)).val
             frac == SubSeq(chars, dot + 1, Len(chars))
         IN whole * TicksPerSec + (ParseUsize(frac).val * TicksPerSec) \div Pow10(Len(frac))

\* the integer a decimal text with an optional sign stands for
IntOfText(chars) ==
  IF chars # <<>> /\ chars[1] = "-" THEN 0 - ParseUsize(Tail(chars)).val
  ELSE ParseUsize(chars).val

LastLine == display[Len(display)]

\* C3: in call_contract the nonce in the signed canonical text and the nonce
\* in the call-contract request are both the fetched nonce plus one.
C3_NonceRule ==
  /\ pc = "call_submit" =>
       (ParseUsize(tx.nonce) = Ok(fetchedNonce + 1) /\ signature.msg = Blob(tx))
  /\ request.sent =>
       /\ request.nonce = fetchedNonce + 1
       /\ ParseUsize(tx.nonce) = Ok(fetchedNonce + 1)
       /\ request.signature.msg = Blob(tx)

C3_Witness == request.sent /\ fetchedNonce = 1 /\ request.nonce = 2

\* C4: a call made after a transaction of this client was reported
\* confirmed submits a nonce strictly above that transaction's nonce.
C4_NonceMonotonic == request.sent => request.nonce > confirmedMax

C4_Witness == request.sent /\ confirmedMax >= 1 /\ pc = "ask_wait"

\* C5: for a method that is neither "view" nor "call" the dispatcher reports
\* "unknown method type", and the iteration has sent nothing but the balance
\* request of the loop head, which precedes the selection.
C5_UnknownKind ==
  method.type \notin {"view", "call", ""} =>
    /\ net = [EmptyNet EXCEPT !.balance = 1]
    /\ pc = "pause" => LastLine.kind = "unknown method type"
    /\ pc \in {"dispatch", "pause"}

C5_Witness ==
  pc = "pause" /\ method.type = "batch" /\ LastLine.kind = "unknown method type"

\* C6: no transport error, malformed response or unsupported method kind
\* after startup ends the process: each is displayed and the loop goes on.
C6_ErrorsNeverTerminate == pc # "crashed"

\* C7: once a submission has succeeded the returned hash is on the display
\* before any line of the polling, and stays there while the poller runs,
\* fails, times out or is declined.
C7_HashShownFirst ==
  /\ pc \in WaitPcs \cup {"ask_wait", "wait_ret"} =>
       \E i \in DOMAIN display : display[i] = [kind |-> "tx", text |-> tx_hash]
  /\ \A j \in DOMAIN display :
       display[j].kind \in {"waiting", "confirmed", "timeout"} =>
         \E i \in 1..(j - 1) : display[i] = [kind |-> "tx", text |-> tx_hash]
  /\ net.status > 0 =>
       \E i \in DOMAIN display : display[i] = [kind |-> "tx", text |-> tx_hash]

C7_Witness ==
  /\ pc = "wait_ret" /\ waitResult.kind = "Failed"
  /\ \E i \in DOMAIN display : display[i] = [kind |-> "tx", text |-> TxHash(1)]

C9_ViewNormalization ==
  (pc = "pause" /\ method.type = "view" /\ response # NoResponse) =>
    /\ LastLine.kind = "result"
    /\ IF response.status = "success"
       THEN CASE response.result.t = "str" -> LastLine.text = response.result.s
              [] response.result.t = "num" ->
                   /\ IntOfText(LastLine.text) = response.result.n
                   /\ response.result.n = 42 => LastLine.text = <<"4", "2">>
              [] response.result.t = "bool" ->
                   LastLine.text = IF response.result.b THEN <<"t", "r", "u", "e">>
                                   ELSE <<"f", "a", "l", "s", "e">>
              [] response.result.t = "null" -> LastLine.text = <<"n", "u", "l", "l">>
              [] OTHER ->
                   /\ LastLine.text[1] = "[" /\ LastLine.text[Len(LastLine.text)] = "]"
                   /\ LastLine.text = ArrToJson(response.result)
       ELSE LastLine.text = <<"n", "o", "n", "e">>

C9_Witness ==
  /\ pc = "pause" /\ method.type = "view"
  /\ response = [status |-> "error", result |-> JNum(42)]
  /\ LastLine = [kind |-> "result", text |-> <<"n", "o", "n", "e">>]

\* C10: for one key sign_tx gives identical inputs the identical signature,
\* and distinct six-field inputs distinct canonical texts, hence distinct
\* signatures.
C10_SignInjective ==
  pc = "signed" =>
    /\ signIn[1] = signIn[2] => signOut[1] = signOut[2]
    /\ signIn[1] # signIn[2] =>
         (Blob(signIn[1]) # Blob(signIn[2]) /\ signOut[1] # signOut[2])

\* while wait_tx runs every fetch so far gave a status; a fetch error leaves
\* wait_tx with one fetch more than dots and no sleep after it
C11_Inv ==
  /\ pc \in {"wait_check", "wait_fetch", "wait_sleep"} =>
       (waitResult = Running /\ checks = dots)
  /\ (pc = "wait_ret" /\ waitResult.kind = "Failed" /\ waitResult.err # "clock") =>
       (checks = dots + 1 /\ sleeps = dots
        /\ waitResult.err \in {"transport", "api error", "decode"})

\* main prints the error wait_tx returned and asks nothing more of the node
C11_Step ==
  (pc = "wait_ret" /\ waitResult.kind = "Failed" /\ pc' # pc) =>
    /\ pc' = "pause"
    /\ net' = net
    /\ display' = Append(display, [kind |-> "error", text |-> <<waitResult.err>>])

\* C11: a failed status fetch (no answer, HTTP status >= 400, unparsable
\* body) ends wait_tx at once with that error: the poller never goes on
\* after a fetch that gave no status, the failing fetch is followed by no
\* sleep and no fetch, and main prints the error.
C11_NoRetryOnFailure == [](C11_Inv) /\ [][C11_Step]_vars

C11_Witness ==
  /\ pc = "wait_ret" /\ waitResult = Failed("api error")
  /\ checks = 3 /\ dots = 2 /\ sleeps = 2

\* C12: wait_tx raises only when a status fetch failed; nothing else, such
\* as the wall clock being set backwards during the poll, makes it raise.
C12_RaisesOnlyOnTransport ==
  (pc = "wait_ret" /\ waitResult.kind = "Failed") =>
    waitResult.err \in {"transport", "api error", "decode"}

\* Ok(true) goes with the status "confirmed"; the sleep follows another status
C13_Inv ==
  /\ (waitResult = Confirmed) <=> (lastStatus = "confirmed")
  /\ pc = "wait_sleep" =>
       /\ lastStatus \in Statuses \ {"confirmed"}
       /\ waitResult = Running
       /\ dots = sleeps + 1

\* a status other than "confirmed" leads to the dot and the sleep; the sleep
\* lasts at least SleepSecs seconds and leads to the next iteration
C13_Step ==
  /\ (pc = "wait_fetch" /\ lastStatus' \in Statuses \ {"confirmed"}) =>
       (pc' = "wait_sleep" /\ dots' = dots + 1 /\ waitResult' = Running)
  /\ (pc = "wait_sleep" /\ pc' # pc) =>
       /\ pc' = "wait_check"
       /\ now' - now >= SleepSecs * TicksPerSec
       /\ checks' = checks /\ sleeps' = sleeps + 1

\* C13: wait_tx returns Confirmed exactly when the status just fetched is
\* "confirmed"; on any other status ("pending", another string, no status
\* field) it stays waiting, prints one progress indicator and sleeps at
\* least SleepSecs seconds before the next iteration.
C13_OnlyConfirmedConfirms == [](C13_Inv) /\ [][C13_Step]_vars

C13_Witness ==
  /\ pc = "wait_sleep" /\ lastStatus = Missing /\ waitResult = Running
  /\ checks = 2 /\ dots = 2 /\ sleeps = 1

\* C14: with the clock advancing and every status request returning, wait_tx
\* reaches a terminal state (Confirmed, TimedOut or Failed), and it makes at
\* most timeout / SleepSecs + 1 iterations, whatever the node answers.
C14_PollTerminates ==
  /\ <>(pc = "wait_ret" /\ waitResult.kind \in {"Confirmed", "TimedOut", "Failed"})
  /\ [](checks <= timeout \div SleepSecs + 1)

C14_Witness ==
  /\ pc = "wait_ret" /\ waitResult = TimedOut /\ timeout = 12
  /\ checks = 3 /\ dots = 3 /\ nodeTx.status = "pending"

\* some line of this kind is on the screen
HasLine(kind) == \E i \in 1..Len(display) : display[i].kind = kind

\* one POST /call-contract per iteration, none while call_contract is still
\* before its POST
C15_Inv ==
  /\ net.call <= 1
  /\ pc \in {"dispatch", "call_balance", "call_sign", "call_submit"} => net.call = 0
  /\ net.call = 1 => HasLine("method")

\* the POST is the last step of call_contract, and call_contract is entered
\* only from the dispatch of a choice the operator typed
C15_Step ==
  /\ net'.call > net.call =>
       (pc = "call_submit" /\ net.call = 0 /\ pc' \in {"ask_wait", "pause"})
  /\ (pc' = "call_submit" /\ pc' # pc) => pc = "call_sign"
  /\ (pc' = "call_sign" /\ pc' # pc) => pc = "call_balance"
  /\ (pc' = "call_balance" /\ pc' # pc) => pc = "dispatch"
  /\ (pc' = "dispatch" /\ pc' # pc) => pc = "choice"

\* C15: for each selection of a call method at most one call-contract
\* request is sent, whether it succeeds or fails; another one is sent only
\* after the operator has made a selection again.
C15_NoResubmission == [](C15_Inv) /\ [][C15_Step]_vars

C15_Witness ==
  /\ ops = 1 /\ pc = "pause" /\ net.call = 1 /\ request.sent
  /\ LastLine.kind = "error" /\ nodeTx # NoTx

\* the iteration of a call method that ends without a POST ended at the
\* nonce fetch: nothing signed, nothing sent, no hash, no poll, the error shown
C16_Inv ==
  (pc = "pause" /\ method.type = "call" /\ net.call = 0) =>
    /\ LastLine.kind = "error"
    /\ tx = <<>> /\ signature = <<>> /\ ~request.sent /\ clockReads = 0
    /\ ~HasLine("tx") /\ ~HasLine("waiting")
    /\ tx_hash = <<>> /\ net.status = 0

\* the nonce fetch either gives the node's nonce and signing follows, or
\* its error is printed and the iteration goes to "press enter"
C16_Step ==
  (pc = "call_balance" /\ pc' # pc) =>
    \/ /\ pc' = "call_sign"
       /\ fetchedNonce' = nodeNonce
       /\ display' = display
    \/ /\ pc' = "pause"
       /\ \E e \in {"transport", "api error", "decode", "parse"} :
            display' = Append(display, [kind |-> "error", text |-> <<e>>])
       /\ tx' = <<>> /\ signature' = <<>> /\ ~request'.sent
       /\ net'.call = 0 /\ net'.status = 0

\* C16: when the nonce fetch of call_contract fails, no transaction is
\* signed, no call-contract request is sent, no hash is shown and no poll is
\* offered; the error is shown and the loop goes on.
C16_NonceFetchFailureAborts == [](C16_Inv) /\ [][C16_Step]_vars

C16_Witness ==
  /\ pc = "pause" /\ method.type = "call" /\ net.call = 0 /\ net.balance = 2
  /\ LastLine = [kind |-> "error", text |-> <<"transport">>]

\* the call's nonce is read by the second balance request of the iteration
C17_Inv ==
  pc \in {"call_sign", "call_submit", "ask_wait"} =>
    /\ net.balance = 2
    /\ menuNonce <= fetchedNonce /\ fetchedNonce <= nodeNonce
    /\ request.sent => request.nonce = fetchedNonce + 1

\* that request gives the nonce the node holds then, and the POST carries it + 1
C17_Step ==
  /\ (pc = "call_balance" /\ pc' = "call_sign") => fetchedNonce' = nodeNonce
  /\ (pc = "call_submit" /\ pc' # pc) =>
       (request'.sent /\ request'.nonce = fetchedNonce + 1)

\* C17: the nonce of a call comes from the balance fetch inside
\* call_contract, made after the parameters were entered, not from the fetch
\* for the menu; when the account's nonce has changed in between, the
\* submitted nonce is the newer value + 1.
C17_FreshNonce == [](C17_Inv) /\ [][C17_Step]_vars

C17_Witness ==
  /\ pc = "ask_wait" /\ request.sent
  /\ menuNonce = 0 /\ fetchedNonce = 1 /\ request.nonce = 2

\* the screen shows the hash call_contract returned and, right after it, that
\* the operator chose to wait
AfterApprovedCall ==
  \E i \in 1..(Len(display) - 1) :
    /\ display[i] = [kind |-> "tx", text |-> tx_hash]
    /\ display[i + 1].kind = "waiting"

\* wait_tx runs, and has asked for a status, only after such a call
C18_Inv ==
  /\ pc \in WaitPcs \cup {"wait_ret"} => (timeout = WaitTimeout /\ AfterApprovedCall)
  /\ net.status > 0 =>
       /\ net.view = 0 /\ net.call = 1
       /\ net.statusOf = tx_hash
       /\ AfterApprovedCall
  /\ (pc = "pause" /\ ~HasLine("waiting")) => net.status = 0

\* a status request is a step of wait_tx, for the hash it was given
C18_Step ==
  net'.status > net.status =>
    /\ pc = "wait_fetch" /\ timeout = WaitTimeout
    /\ net'.status = net.status + 1
    /\ net'.statusOf = tx_hash

\* C18: every GET of a transaction status is made by wait_tx, for the hash
\* the call-contract submission of the same iteration returned, after the
\* operator answered yes, with the timeout WaitTimeout; the view path, a
\* failed submission and a declined wait make no such request.
C18_StatusOnlyAfterApprovedCall == [](C18_Inv) /\ [][C18_Step]_vars

C18_Witness ==
  /\ pc = "wait_sleep" /\ net.status = 2 /\ tx_hash = TxHash(2)
  /\ net.statusOf = tx_hash

\* C19: wait_tx returns TimedOut only after at least one status fetch and
\* only when the whole seconds elapsed exceed the timeout (for every
\* timeout, 0 included); a fetch is made while the whole seconds elapsed
\* are at most the timeout, the timeout itself included.
C19_TimeoutIsStrict ==
  /\ (pc = "wait_ret" /\ waitResult = TimedOut) =>
       (checks >= 1 /\ (now - start) \div TicksPerSec > timeout)
  /\ (pc = "wait_fetch" /\ now >= start) =>
       (now - start) \div TicksPerSec <= timeout

\* C19 as the code has it: TimedOut is returned only when the whole seconds
\* elapsed exceed the timeout, and a fetch is made only after a test that
\* found them at most the timeout; at least one fetch comes before TimedOut
\* whenever the time lost between the reading of start and the tests is at
\* most the timeout in whole seconds.
C19_TimeoutIsStrictAfterStart ==
  /\ (pc = "wait_ret" /\ waitResult = TimedOut) =>
       /\ (now - start) \div TicksPerSec > timeout
       /\ jitter \div TicksPerSec <= timeout => checks >= 1
  /\ (pc = "wait_fetch" /\ now >= start) =>
       (now - start) \div TicksPerSec <= timeout

C19_Witness ==
  /\ pc = "wait_ret" /\ waitResult = TimedOut /\ timeout = 5 /\ checks = 2
  /\ Exact /\ now - start = 2 * SleepSecs * TicksPerSec

\* the signature of these four values under the wallet's key
SignatureOf(caller, contract, nonce, ts) ==
  Ed25519Sign(Wallet.priv,
              Blob([from |-> caller, to_ |-> contract, amount |-> <<"0">>,
                    nonce |-> U64ToString(nonce), ou |-> <<"1">>,
                    timestamp |-> F64ToString(ts)]))

\* C20: the signature sent with a call-contract request is determined by the
\* key, the caller, the contract, the nonce and the timestamp of the
\* request; the method and the parameters have no part in it.
C20_SignatureIgnoresMethod ==
  request.sent =>
    request.signature = SignatureOf(request.caller, request.contract,
                                    request.nonce, request.timestamp)

C20_Witness ==
  /\ request.sent /\ request.method = "reset" /\ request.params = <<>>
  /\ request.signature = SignatureOf(Wallet.addr, Interface.contract, 2, 24)

====
